---- MODULE Spec2Model ----
(***************************************************************************)
(* Model of the bookmarks REST API: the sequelize model definition         *)
(* (src/unnamed/part_000), the link validator                              *)
(* (src/src/validators/bookmarks.js) and the four express handlers with    *)
(* their helpers (src/unnamed/part_001).                                   *)
(*                                                                         *)
(* A handler runs synchronously up to its first await; every awaited       *)
(* store call is executed by the store at some later moment, atomically,   *)
(* and the handler then runs on to its next await or to its end.  The      *)
(* count issued by chechGuidExistence is never awaited by the handlers, so *)
(* the store executes it at any moment after it was issued.                *)
(***************************************************************************)
EXTENDS Integers, Sequences, FiniteSets, TLC

\* ------------------------------------------------------------------ bounds
\* Number of requests the server receives in one run.
MaxRequests == 2
\* Largest value Date.now() takes.
MaxClock == 2

\* Requests that can be in flight at the same time.
Slots == {1, 2}

\* ------------------------------------------------------- schema (part_000)
\* The value of an integer column that holds NULL (updatedAt allowNull: true).
Null == -1

\* defaultValue: uuid() is evaluated once, when the model is defined: every
\* record created by this process without an explicit guid gets this value.
guidDefaultValue == "g0"

Columns == {"guid", "link", "createdAt", "updatedAt", "description", "favorites"}

\* Guids of records written by earlier server processes.
OldGuids == {"g1", "g2"}
Guids == {guidDefaultValue} \cup OldGuids

\* guid is the primary key, so the table never holds more rows than guids.
Rows == 1..Cardinality(Guids)

\* ------------------------------------------------ link validator (validate.js)
\* The four banned literals of exclusion.within.
ExclusionWithin ==
    {"http://yahoo.com", "https://yahoo.com", "http://socket.io", "https://socket.io"}

\* The links of the model that match validate.js's url pattern with
\* schemes: [".+"] (any scheme, then ://, then a host with a top-level domain).
UrlShaped == ExclusionWithin \cup {"https://example.com", "https://ya.ru"}

\* The other links of the model, "" and "example", do not match it.

\* validate(req.body, {link: bookmarkLinkConstraints}).link: the messages of the
\* failing validators, in the order presence, url, exclusion; <<>> when
\* validate returns undefined.
\* validate with the exclusion rule left out of the constraints.
validateWithoutExclusion(body) ==
    IF "link" \notin DOMAIN body
    THEN <<"can't be blank">>
    ELSE IF body["link"] \notin UrlShaped THEN <<"BOOKMARKS_INVALID_LINK">> ELSE <<>>

validate(body) ==
    IF "link" \notin DOMAIN body
    THEN <<"can't be blank">>
    ELSE (IF body["link"] \notin UrlShaped THEN <<"BOOKMARKS_INVALID_LINK">> ELSE <<>>)
         \o (IF body["link"] \in ExclusionWithin THEN <<"BOOKMARKS_BLOCKED_DOMAIN">> ELSE <<>>)

\* ------------------------------------------------------------ query splitter
\* The defaults as written in the source; the object itself is the variable
\* defaultQueryParams, which router.get mutates.
InitialQueryParams ==
    [limit |-> 50, offset |-> 0, sort_by |-> "createdAt", sort_dir |-> "asc"]

ControlKeys == DOMAIN InitialQueryParams

\* A query string is a sequence of <<key, value>> pairs with distinct keys, in
\* Object.entries order.
\* explodeRequestQuery: the loop returns in its first iteration, so only the
\* first pair is routed; with no pair at all the function returns undefined.
\* The result carries isUndefined = TRUE in that case.
explodeRequestQuery(obj) ==
    IF Len(obj) = 0
    THEN [isUndefined |-> TRUE, query |-> <<>>, where |-> <<>>]
    ELSE LET key == obj[1][1]
             param == obj[1][2]
         IN IF key \in ControlKeys
            THEN [isUndefined |-> FALSE, query |-> (key :> param), where |-> <<>>]
            ELSE [isUndefined |-> FALSE, query |-> <<>>, where |-> (key :> param)]

\* Object.assign(target, source): target with source's own keys written over.
ObjectAssign(target, source) ==
    [k \in DOMAIN target \cup DOMAIN source |->
        IF k \in DOMAIN source THEN source[k] ELSE target[k]]

\* ------------------------------------------------------------------- state
VARIABLES
    store,               \* the bookmarks table: row -> record
    defaultQueryParams,  \* the module-level object of part_001, lines 12-17
    now,                 \* the last value Date.now() returned
    reqs,                \* slot -> the handler invocation running in it
    last,                \* the handler invocation that ended most recently
    served               \* requests received so far

vars == <<store, defaultQueryParams, now, reqs, last, served>>

\* A stored record.
Bookmark(guid, link, createdAt, description, favorites) ==
    [guid |-> guid, link |-> link, createdAt |-> createdAt, updatedAt |-> Null,
     description |-> description, favorites |-> favorites]

\* Tables left by earlier server processes (links passed the validator).
InitialStores ==
    { <<>>,
      <<Bookmark("g1", "https://ya.ru", 2, "d", FALSE),
        Bookmark("g2", "https://example.com", 1, "", TRUE)>> }

\* A handler invocation.  pc is the store call the handler awaits ("findAll",
\* "count", "create", "update", "destroy"), "idle" in a slot that runs none and
\* "done" once the handler has ended.  resp holds the response sent; resend
\* records a res.json() after a response was sent (it throws
\* ERR_HTTP_HEADERS_SENT).  check is the state of the unawaited count of
\* chechGuidExistence.  issued holds the store calls made.  existed and rows0
\* record the table at the time of the request; raced records that a DELETE
\* removed the record the handler names while the handler was running.
Fresh ==
    [method |-> "NONE", guid |-> "", body |-> <<>>, query |-> <<>>,
     pc |-> "idle", resp |-> <<>>, resend |-> FALSE, check |-> "none",
     issued |-> {}, fault |-> "none", where |-> <<>>,
     params |-> InitialQueryParams, values |-> <<>>, data |-> <<>>,
     amount |-> 0, existed |-> FALSE, rows0 |-> 0, raced |-> FALSE]

\* res.status(status).json({...}): sends the response, or throws when one was
\* already sent.  Every call after the first is followed only by code that
\* sends again or ends, so the throw is recorded and nothing else happens.
Send(r, status, scope, payload) ==
    IF Len(r.resp) = 0
    THEN [r EXCEPT !.resp = <<[status |-> status, scope |-> scope, payload |-> payload]>>]
    ELSE [r EXCEPT !.resend = TRUE]

\* ------------------------------------------------------------ store (ORM)
GuidsOf(st) == {st[row].guid : row \in DOMAIN st}

\* Rows matching an equality where clause.
Matching(st, where) ==
    {row \in DOMAIN st : \A k \in DOMAIN where : st[row][k] = where[k]}

\* A where or order column the table does not have makes the query throw.
UnknownColumn(where, sortBy) ==
    (\E k \in DOMAIN where : k \notin Columns) \/ sortBy \notin Columns

Min(a, b) == IF a < b THEN a ELSE b

\* Every ordering of the matching rows by the sort column (ties in any order).
Ordered(st, rows, sortBy, sortDir) ==
    LET n == Cardinality(rows)
    IN { seq \in [1..n -> rows] :
           /\ \A i, j \in 1..n : i # j => seq[i] # seq[j]
           /\ \A i \in 1..(n - 1) :
                IF sortDir = "asc"
                THEN st[seq[i]][sortBy] <= st[seq[i + 1]][sortBy]
                ELSE st[seq[i]][sortBy] >= st[seq[i + 1]][sortBy] }

\* models.bookmarks.findAll({where, order, offset, limit}): the possible pages.
findAll(st, where, params) ==
    { [i \in 1..Len(page) |-> st[page[i]]] :
        page \in { SubSeq(seq, params.offset + 1,
                          Min(params.offset + params.limit, Len(seq))) :
                   seq \in Ordered(st, Matching(st, where), params.sort_by, params.sort_dir) } }

\* models.bookmarks.count({where}).
count(st, where) == Cardinality(Matching(st, where))

\* models.bookmarks.create(values): guid is not among the values the handler
\* passes, so the model's defaultValue fills it.
NewRow(st) == CHOOSE row \in Rows \ DOMAIN st : \A o \in Rows \ DOMAIN st : row <= o

create(st, values) ==
    LET rec == [guid |-> guidDefaultValue, link |-> values.link,
                createdAt |-> values.createdAt, updatedAt |-> Null,
                description |-> values.description, favorites |-> values.favorites]
        new == NewRow(st)
    IN [row \in DOMAIN st \cup {new} |-> IF row = new THEN rec ELSE st[row]]

\* models.bookmarks.update(values, {where: {guid}}): every column named in
\* values is written to the matching rows.
\* update as it would be if the ORM also wrote the time to updatedAt.
updateStampingUpdatedAt(st, values, guid) ==
    [row \in DOMAIN st |->
        IF st[row].guid = guid
        THEN [c \in Columns |->
                IF c \in DOMAIN values THEN values[c]
                ELSE IF c = "updatedAt" THEN now ELSE st[row][c]]
        ELSE st[row]]

update(st, values, guid) ==
    [row \in DOMAIN st |->
        IF st[row].guid = guid
        THEN [c \in Columns |-> IF c \in DOMAIN values THEN values[c] ELSE st[row][c]]
        ELSE st[row]]

\* The primary key stays unique: an update that gives a row the guid of
\* another row throws.
UpdateConflicts(st, values, guid) ==
    /\ "guid" \in DOMAIN values
    /\ values["guid"] # guid
    /\ guid \in GuidsOf(st)
    /\ values["guid"] \in GuidsOf(st)

\* models.bookmarks.destroy({where: {guid}}).
destroy(st, guid) ==
    [row \in {r \in DOMAIN st : st[r].guid # guid} |-> st[row]]

\* ------------------------------------------------------------------ inputs
Queries ==
    { <<>>,
      << <<"limit", 1>> >>,
      << <<"offset", 1>> >>,
      << <<"sort_dir", "desc">> >>,
      << <<"limit", 1>>, <<"offset", 1>> >>,
      << <<"favorites", TRUE>> >>,
      << <<"color", "red">> >> }

PostBodies ==
    { [link |-> "https://example.com", description |-> "d"],
      <<>>,
      [link |-> ""],
      [link |-> "example"],
      [link |-> "http://yahoo.com"],
      [link |-> "https://yahoo.com"],
      [link |-> "http://socket.io"],
      [link |-> "https://socket.io"] }

PatchBodies ==
    { [description |-> "new"],
      [link |-> "https://example.com"],
      [link |-> "https://yahoo.com"],
      [link |-> ""],
      [createdAt |-> 0],
      [guid |-> "g2"] }

\* The guids requests name: one no earlier process wrote, one it did.
RequestGuids == {guidDefaultValue, "g1"}

\* ----------------------------------------------------------------- actions
\* A JavaScript value that is falsy.  The values are named by their kind.
Falsy(v) == v \in {"undefined", "false"}

\* chechGuidExistence(guid) is an async function and the handlers do not await
\* it: the value they get is the promise, whatever the count finds.
chechGuidExistence(guid) == "Promise"

\* The slot a new request takes: the lowest one that runs no handler.
Free(s) ==
    /\ reqs[s].pc = "idle"
    /\ \A o \in Slots : o < s => reqs[o].pc # "idle"

Invoke(s) ==
    /\ served < MaxRequests
    /\ Free(s)
    /\ served' = served + 1

Started(method) ==
    [Fresh EXCEPT !.method = method, !.rows0 = Cardinality(DOMAIN store)]

\* The handler in slot s goes on, as r.
Continue(s, r) ==
    /\ reqs' = [reqs EXCEPT ![s] = r]
    /\ UNCHANGED last

\* The handler in slot s ends, as r.
End(s, r) ==
    /\ reqs' = [reqs EXCEPT ![s] = Fresh]
    /\ last' = [r EXCEPT !.pc = "done"]

\* router.get("/"), lines 59-74: up to the call of findAll.
Get(s, q) ==
    /\ Invoke(s)
    /\ LET exploded == explodeRequestQuery(q)
           r == [Started("GET") EXCEPT !.query = q]
       IN IF exploded.isUndefined
          THEN \* explodedRequestQuery.query throws a TypeError outside the try
               /\ End(s, [r EXCEPT !.fault = "TypeError"])
               /\ UNCHANGED defaultQueryParams
          ELSE LET queryParams == ObjectAssign(defaultQueryParams, exploded.query)
               IN /\ defaultQueryParams' = queryParams
                  /\ Continue(s, [r EXCEPT !.pc = "findAll", !.where = exploded.where,
                                           !.params = queryParams, !.issued = {"findAll"}])
    /\ UNCHANGED <<store, now>>

\* The store runs findAll; the handler goes on to call count (lines 69-77).
GetFindAll(s) ==
    /\ reqs[s].pc = "findAll"
    /\ LET r == reqs[s]
       IN \E fail \in BOOLEAN :
            IF fail \/ UnknownColumn(r.where, r.params.sort_by)
            THEN End(s, Send([r EXCEPT !.fault = IF fail THEN "store" ELSE "column"],
                             400, "backend", "Can't get bookmarks"))
            ELSE \E data \in findAll(store, r.where, r.params) :
                    Continue(s, [r EXCEPT !.pc = "count", !.data = data,
                                          !.issued = @ \cup {"count"}])
    /\ UNCHANGED <<store, defaultQueryParams, now, served>>

\* The store runs count; the handler responds (lines 78-100).  data is an
\* array, which is truthy, so the "Bad order request!" branch is never taken.
GetCount(s) ==
    /\ reqs[s].pc = "count"
    /\ LET r == reqs[s]
       IN \E fail \in BOOLEAN :
            IF fail
            THEN End(s, Send([r EXCEPT !.fault = "store"], 400, "backend", "Can't get bookmarks"))
            ELSE LET amount == count(store, r.where)
                     r0 == [r EXCEPT !.amount = amount]
                     r1 == IF amount = 0
                           THEN Send(r0, 401, "bookmarks", "No bookmark found with this query!")
                           ELSE r0
                 IN End(s, Send(r1, 200, "data", [length |-> amount, data |-> r.data]))
    /\ UNCHANGED <<store, defaultQueryParams, now, served>>

\* body[k] || dflt
OrDefault(body, k, dflt) ==
    IF k \in DOMAIN body /\ body[k] # dflt THEN body[k] ELSE dflt

\* router.post("/"), lines 147-173: validation, then the call of create with
\* createdAt: + Date.now(), a time not before the last one read.
Post(s, body) ==
    /\ Invoke(s)
    /\ LET validationResult == validate(body)
           r == [Started("POST") EXCEPT !.body = body]
       IN IF Len(validationResult) > 0
          THEN /\ End(s, Send(r, 400, "validation", validationResult[1]))
               /\ UNCHANGED now
          ELSE \E t \in now..MaxClock :
                 /\ now' = t
                 /\ Continue(s, [r EXCEPT !.pc = "create", !.issued = {"create"},
                                   !.values = [link |-> body["link"],
                                               description |-> OrDefault(body, "description", ""),
                                               favorites |-> OrDefault(body, "favorites", FALSE),
                                               createdAt |-> t]])
    /\ UNCHANGED <<store, defaultQueryParams>>

\* The store runs create; the handler responds (lines 175-197).
PostCreate(s) ==
    /\ reqs[s].pc = "create"
    /\ LET r == reqs[s]
       IN \E fail \in BOOLEAN :
            IF fail \/ guidDefaultValue \in GuidsOf(store)
            THEN /\ End(s, Send([r EXCEPT !.fault = IF fail THEN "store" ELSE "unique"],
                                400, "backend", "Can't create bookmark!"))
                 /\ UNCHANGED store
            ELSE /\ store' = create(store, r.values)
                 /\ End(s, Send(r, 200, "data",
                                [guid |-> guidDefaultValue, createdAt |-> r.values.createdAt]))
    /\ UNCHANGED <<defaultQueryParams, now, served>>

\* router.patch("/:guid"), lines 252-285: the existence check, the validation
\* of a truthy link, then the call of update.
Patch(s, guid, body) ==
    /\ Invoke(s)
    /\ LET check == chechGuidExistence(guid)
           r0 == [Started("PATCH") EXCEPT !.guid = guid, !.body = body,
                      !.check = "pending", !.issued = {"existsCount"},
                      !.existed = guid \in GuidsOf(store)]
           r1 == IF Falsy(check)
                 THEN Send(r0, 404, "bookmarks", "404 Bookmark not found")
                 ELSE r0
           validationResult ==
                 IF "link" \in DOMAIN body /\ body["link"] # "" THEN validate(body) ELSE <<>>
       IN IF Len(validationResult) > 0
          THEN End(s, Send(r1, 400, "validation", validationResult[1]))
          ELSE Continue(s, [r1 EXCEPT !.pc = "update", !.issued = @ \cup {"update"}])
    /\ UNCHANGED <<store, defaultQueryParams, now>>

\* PatchUpdate as it would be if the handler tested the number of rows.
PatchUpdateTestingRows(s) ==
    /\ reqs[s].pc = "update"
    /\ LET r == reqs[s]
           n == count(store, [guid |-> r.guid])
       IN /\ store' = update(store, r.body, r.guid)
          /\ End(s, IF n = 0
                    THEN Send([r EXCEPT !.amount = n], 400, "backend", "Can't patch bookmark!")
                    ELSE Send([r EXCEPT !.amount = n], 200, "data", "OK"))
    /\ UNCHANGED <<defaultQueryParams, now, served>>

\* The store runs update; the handler responds (lines 287-304).  update
\* resolves to an array holding the number of rows, which is truthy.
PatchUpdate(s) ==
    /\ reqs[s].pc = "update"
    /\ LET r == reqs[s]
       IN \E fail \in BOOLEAN :
            IF fail \/ UpdateConflicts(store, r.body, r.guid)
            THEN /\ End(s, Send([r EXCEPT !.fault = IF fail THEN "store" ELSE "unique"],
                                400, "backend", "Can't patch bookmark!"))
                 /\ UNCHANGED store
            ELSE /\ store' = update(store, r.body, r.guid)
                 /\ End(s, Send([r EXCEPT !.amount = count(store, [guid |-> r.guid])],
                                200, "data", "OK"))
    /\ UNCHANGED <<defaultQueryParams, now, served>>

\* router.delete("/:guid"), lines 346-365: the existence check, then the call
\* of destroy.
Delete(s, guid) ==
    /\ Invoke(s)
    /\ LET checkGuid == chechGuidExistence(guid)
           r == [Started("DELETE") EXCEPT !.guid = guid, !.check = "pending",
                     !.issued = {"existsCount"}, !.existed = guid \in GuidsOf(store)]
       IN IF Falsy(checkGuid)
          THEN End(s, Send(r, 404, "bookmarks", "404 Bookmark not found"))
          ELSE Continue(s, [r EXCEPT !.pc = "destroy", !.issued = @ \cup {"destroy"}])
    /\ UNCHANGED <<store, defaultQueryParams, now>>

\* The store runs destroy; the handler responds (lines 367-386).  destroy
\* resolves to the number of rows removed, and 0 is falsy.
DeleteDestroy(s) ==
    /\ reqs[s].pc = "destroy"
    /\ LET r == reqs[s]
       IN \E fail \in BOOLEAN :
            IF fail
            THEN /\ End(s, Send([r EXCEPT !.fault = "store"],
                                400, "backend", "Can't delete bookmark!"))
                 /\ UNCHANGED store
            ELSE LET n == count(store, [guid |-> r.guid])
                     r0 == [r EXCEPT !.amount = n]
                 IN /\ store' = destroy(store, r.guid)
                    /\ last' = [(IF n = 0
                                 THEN Send(r0, 400, "backend", "Can't delete boorkmark!")
                                 ELSE Send(r0, 200, "data", "OK")) EXCEPT !.pc = "done"]
                    /\ reqs' = [o \in Slots |->
                                 IF o = s THEN Fresh
                                 ELSE IF n > 0 /\ reqs[o].guid = r.guid
                                      THEN [reqs[o] EXCEPT !.raced = TRUE]
                                      ELSE reqs[o]]
    /\ UNCHANGED <<defaultQueryParams, now, served>>

\* The store runs the count of chechGuidExistence (lines 434-448) while the
\* handler that issued it is running; its result reaches nobody.  (A count the
\* store runs after the handler has ended changes nothing at all.)
CheckCount(s) ==
    /\ reqs[s].check = "pending"
    /\ \E fail \in BOOLEAN :
         Continue(s, [reqs[s] EXCEPT !.check =
                    IF fail THEN "threw"
                    ELSE IF count(store, [guid |-> reqs[s].guid]) = 0 THEN "unseen" ELSE "seen"])
    /\ UNCHANGED <<store, defaultQueryParams, now, served>>

Init ==
    /\ store \in InitialStores
    /\ defaultQueryParams = InitialQueryParams
    /\ now = 1
    /\ reqs = [s \in Slots |-> Fresh]
    /\ last = Fresh
    /\ served = 0

Next ==
    \/ \E s \in Slots, q \in Queries : Get(s, q)
    \/ \E s \in Slots : GetFindAll(s)
    \/ \E s \in Slots : GetCount(s)
    \/ \E s \in Slots, body \in PostBodies : Post(s, body)
    \/ \E s \in Slots : PostCreate(s)
    \/ \E s \in Slots, guid \in RequestGuids, body \in PatchBodies : Patch(s, guid, body)
    \/ \E s \in Slots : PatchUpdate(s)
    \/ \E s \in Slots, guid \in RequestGuids : Delete(s, guid)
    \/ \E s \in Slots : DeleteDestroy(s)
    \/ \E s \in Slots : CheckCount(s)

Spec == Init /\ [][Next]_vars

\* ------------------------------------------------------------------ claims
Status(r) == r.resp[1].status

\* The link of a body does not pass the validator as the specification states
\* it: absent or empty, not URL-shaped, or one of the four banned literals.
InvalidLink(body) ==
    \/ "link" \notin DOMAIN body
    \/ body["link"] = ""
    \/ body["link"] \notin UrlShaped
    \/ body["link"] \in {"http://yahoo.com", "https://yahoo.com",
                         "http://socket.io", "https://socket.io"}

\* C1: a GET with no query parameters, on a table that holds a record and a
\* store that does not fail, ends with the response 200 {length, data}, data
\* holding at most 50 records in ascending createdAt and length being the
\* number of records counted.
C1_ListWithoutQuery ==
    (/\ last.method = "GET"
     /\ Len(last.query) = 0
     /\ last.fault # "store"
     /\ last.rows0 >= 1)
    => /\ Len(last.resp) = 1
       /\ Status(last) = 200
       /\ Len(last.resp[1].payload.data) <= 50
       /\ \A i \in 1..(Len(last.resp[1].payload.data) - 1) :
            last.resp[1].payload.data[i].createdAt
                <= last.resp[1].payload.data[i + 1].createdAt
       /\ last.resp[1].payload.length = last.amount

\* C2: every POST whose link passes validation, on a store that does not
\* otherwise fail, ends with the response 200 and a guid no stored record had.
C2_PostSucceedsWithNewGuid ==
    (/\ last.method = "POST"
     /\ ~InvalidLink(last.body)
     /\ last.fault # "store")
    => /\ Len(last.resp) = 1
       /\ Status(last) = 200
       /\ last.fault = "none"

\* C3: a PATCH or DELETE that names a guid no record had at the time of the
\* request (and carries no link that fails validation) ends with the response
\* 404, scoped bookmarks, and has issued neither update nor destroy.
C3_UnknownGuidIs404 ==
    (/\ last.method \in {"PATCH", "DELETE"}
     /\ ~last.existed
     /\ "link" \in DOMAIN last.body => ~InvalidLink(last.body))
    => /\ Len(last.resp) = 1
       /\ Status(last) = 404
       /\ last.resp[1].scope = "bookmarks"
       /\ last.issued \cap {"update", "destroy"} = {}

\* C4: a POST whose link fails validation ends at once with the response 400,
\* scoped validation, having issued no store call; no POST with such a link
\* ever waits for the store.
C4_InvalidLinkRejected ==
    /\ (last.method = "POST" /\ InvalidLink(last.body))
       => /\ Len(last.resp) = 1
          /\ Status(last) = 400
          /\ last.resp[1].scope = "validation"
          /\ last.issued = {}
          /\ ~last.resend
    /\ \A s \in Slots : reqs[s].method = "POST" => ~InvalidLink(reqs[s].body)

C4_Witness ==
    /\ last.method = "POST"
    /\ "link" \in DOMAIN last.body
    /\ last.body["link"] = "https://socket.io"
    /\ Len(last.resp) = 1
    /\ Status(last) = 400
    /\ Cardinality(DOMAIN store) = 2

\* The handler in slot s ends in this step with the response 200.
EndsOK(s) ==
    /\ reqs[s].pc # "idle"
    /\ reqs'[s].pc = "idle"
    /\ Len(last'.resp) = 1
    /\ last'.resp[1].status = 200

C6_GuidAndCreatedAtNeverChange ==
    [][\A row \in DOMAIN store \cap DOMAIN store' :
         /\ store'[row].guid = store[row].guid
         /\ store'[row].createdAt = store[row].createdAt]_vars

\* C7: the link of every stored record passes the validator.
C7_StoredLinksValid ==
    \A row \in DOMAIN store : ~InvalidLink([link |-> store[row].link])

\* The value the query string q gives the key k.
Supplied(q, k) == \E i \in 1..Len(q) : q[i][1] = k
ValueOf(q, k) == q[CHOOSE i \in 1..Len(q) : q[i][1] = k][2]

\* C8: a GET whose query string holds only control keys passes the store an
\* empty filter, each supplied control key with its supplied value and each
\* other control key with its default, whatever was handled before.
C8_ControlKeysOnly ==
    \A r \in {reqs[s] : s \in Slots} \cup {last} :
        (/\ r.method = "GET"
         /\ "findAll" \in r.issued
         /\ \A i \in 1..Len(r.query) : r.query[i][1] \in ControlKeys)
        => /\ DOMAIN r.where = {}
           /\ \A k \in ControlKeys :
                r.params[k] = IF Supplied(r.query, k)
                              THEN ValueOf(r.query, k)
                              ELSE InitialQueryParams[k]

\* C9: a handler that has ended has sent exactly one response and has not
\* tried to send another.
C9_ExactlyOneResponse ==
    last.pc = "done" => (Len(last.resp) = 1 /\ ~last.resend)

\* C10: when the update of a PATCH runs after the PATCH's existence check saw
\* the record and a DELETE removed it, the PATCH ends with the response
\* 200 {data: "OK"} and the table is left as it was.
C10_PatchAfterDeleteSaysOK ==
    [][\A s \in Slots :
         (/\ reqs[s].pc = "update"
          /\ reqs[s].check = "seen"
          /\ reqs[s].raced
          /\ reqs[s].guid \notin GuidsOf(store)
          /\ reqs'[s].pc = "idle"
          /\ last'.fault = "none")
         => /\ last'.resp = <<[status |-> 200, scope |-> "data", payload |-> "OK"]>>
            /\ ~last'.resend
            /\ store' = store]_vars

C10_Witness ==
    /\ last.method = "PATCH"
    /\ last.existed
    /\ last.check = "seen"
    /\ last.raced
    /\ last.fault = "none"
    /\ last.amount = 0
    /\ Len(last.resp) = 1
    /\ Status(last) = 200
    /\ last.guid \notin GuidsOf(store)

====
